---- MODULE Spec2Model ----
(***************************************************************************)
(* har-to-hoverfly: conversion of a HAR log into a Hoverfly simulation or  *)
(* a per-host summary.  Two converters live in the repository:             *)
(*   - the main converter    (src/har-to-hoverfly.go, positional input),   *)
(*   - the variant converter (src/unnamed/part_002, --input flag).         *)
(* A Go string is modelled as a sequence of one-character strings, so that *)
(* parsing, lower-casing, truncation, padding and sorting are computed.    *)
(***************************************************************************)
EXTENDS Integers, Sequences, FiniteSets, TLC

(***************************************************************************)
(* Bytes and strings                                                       *)
(***************************************************************************)

\* The printable ASCII characters, in byte order: Chars[i] is byte 31 + i
\* (byte 96, the grave accent, is written as the token "\\x96").
Chars ==
  <<" ", "!", "\"", "#", "$", "%", "&", "'", "(", ")", "*", "+", ",", "-", ".", "/",
    "0", "1", "2", "3", "4", "5", "6", "7", "8", "9", ":", ";", "<", "=", ">", "?",
    "@", "A", "B", "C", "D", "E", "F", "G", "H", "I", "J", "K", "L", "M", "N", "O",
    "P", "Q", "R", "S", "T", "U", "V", "W", "X", "Y", "Z", "[", "\\", "]", "^", "_",
    "\\x96", "a", "b", "c", "d", "e", "f", "g", "h", "i", "j", "k", "l", "m", "n", "o",
    "p", "q", "r", "s", "t", "u", "v", "w", "x", "y", "z", "{", "|", "}", "~">>

CharSet == {Chars[i] : i \in DOMAIN Chars}

OrdTable == [c \in CharSet |-> 31 + (CHOOSE i \in DOMAIN Chars : Chars[i] = c)]

\* The byte value of a character; a byte outside printable ASCII is a token
\* "\xN" produced by Chr and keeps its value class (>= 0x80).
Ord(c) == IF c \in DOMAIN OrdTable THEN OrdTable[c] ELSE 128

Chr(n) == IF n \in 32..126 THEN Chars[n - 31] ELSE "\\x" \o ToString(n)

Digits == {"0", "1", "2", "3", "4", "5", "6", "7", "8", "9"}

UpperLetters ==
  {"A", "B", "C", "D", "E", "F", "G", "H", "I", "J", "K", "L", "M",
   "N", "O", "P", "Q", "R", "S", "T", "U", "V", "W", "X", "Y", "Z"}

LowerLetters ==
  {"a", "b", "c", "d", "e", "f", "g", "h", "i", "j", "k", "l", "m",
   "n", "o", "p", "q", "r", "s", "t", "u", "v", "w", "x", "y", "z"}

IsLetter(c) == c \in UpperLetters \/ c \in LowerLetters

IsDigit(c) == c \in Digits

\* byte-wise strings.ToLower on ASCII
LowerChar(c) == IF c \in UpperLetters THEN Chr(Ord(c) + 32) ELSE c

ToLower(s) == [i \in DOMAIN s |-> LowerChar(s[i])]

HasPrefix(s, p) == Len(s) >= Len(p) /\ SubSeq(s, 1, Len(p)) = p

HasSuffix(s, p) == Len(s) >= Len(p) /\ SubSeq(s, Len(s) - Len(p) + 1, Len(s)) = p

\* strings.Index: the 1-based position of the first occurrence, 0 when absent
Index(s, sub) ==
  LET hits == {i \in 1..(Len(s) - Len(sub) + 1) : SubSeq(s, i, i + Len(sub) - 1) = sub}
  IN  IF hits = {} THEN 0 ELSE CHOOSE i \in hits : \A j \in hits : i <= j

LastIndex(s, sub) ==
  LET hits == {i \in 1..(Len(s) - Len(sub) + 1) : SubSeq(s, i, i + Len(sub) - 1) = sub}
  IN  IF hits = {} THEN 0 ELSE CHOOSE i \in hits : \A j \in hits : i >= j

Contains(s, sub) == Index(s, sub) # 0

Count(s, c) == Cardinality({i \in DOMAIN s : s[i] = c})

\* strings.Cut: <<before, after, found>>
Cut(s, sep) ==
  LET i == Index(s, sep)
  IN  IF i = 0 THEN <<s, <<>>, FALSE>>
      ELSE <<SubSeq(s, 1, i - 1), SubSeq(s, i + Len(sep), Len(s)), TRUE>>

\* s[:n] and s[n:] with 0-based Go offsets
Take(s, n) == SubSeq(s, 1, n)

Drop(s, n) == SubSeq(s, n + 1, Len(s))

\* Go's string comparison (byte-wise lexicographic), as used by sort.Strings:
\* the first differing byte decides, and a proper prefix is smaller
StrLess(a, b) ==
  LET n    == IF Len(a) < Len(b) THEN Len(a) ELSE Len(b)
      diff == {i \in 1..n : a[i] # b[i]}
      d    == CHOOSE i \in diff : \A j \in diff : i <= j
  IN  IF diff = {} THEN Len(a) < Len(b) ELSE Ord(a[d]) < Ord(b[d])

(***************************************************************************)
(* net/url as the converters use it: url.Parse, URL.Host, URL.Path,        *)
(* URL.RawQuery and URL.Query()                                            *)
(***************************************************************************)

IsHex(c) == c \in Digits \/ c \in {"a", "b", "c", "d", "e", "f", "A", "B", "C", "D", "E", "F"}

\* unhex
UnHex(c) ==
  IF c \in Digits THEN Ord(c) - 48
  ELSE IF c \in LowerLetters THEN Ord(c) - 97 + 10
  ELSE Ord(c) - 65 + 10

\* shouldEscape(c, encodeHost): the bytes a host may not hold unescaped
ShouldEscapeHost(c) ==
  ~ ( IsLetter(c) \/ IsDigit(c)
      \/ c \in {"!", "$", "&", "'", "(", ")", "*", "+", ",", ";", "=", ":", "[", "]",
                "<", ">", "\"", "-", "_", ".", "~"} )

Failed == [ok |-> FALSE, s |-> <<>>]

\* unescape(s, mode): [ok, s].  mode is "host", "path", "fragment" or "query";
\* only "query" (QueryUnescape) turns "+" into a space, only "host" rejects
\* bytes and escapes a host may not hold.  The scan fails at the first "%" that
\* two hexadecimal digits do not follow; as no digit is a "%", every "%" of a
\* string that passes starts an escape, and the bytes kept are those that are
\* not one of the two digits after a "%".
Unescape(s, mode) ==
  LET badEscape(i) ==
        \/ i + 2 > Len(s) \/ ~IsHex(s[i + 1]) \/ ~IsHex(s[i + 2])
        \/ mode = "host" /\ UnHex(s[i + 1]) < 8 /\ SubSeq(s, i, i + 2) # <<"%","2","5">>
      badByte(i) == mode = "host" /\ s[i] \in CharSet /\ ShouldEscapeHost(s[i])
      digit(i) == (i > 1 /\ s[i - 1] = "%") \/ (i > 2 /\ s[i - 2] = "%")
      byte(i) == IF s[i] = "%" THEN Chr(16 * UnHex(s[i + 1]) + UnHex(s[i + 2]))
                 ELSE IF mode = "query" /\ s[i] = "+" THEN " "
                 ELSE s[i]
  IN  IF \E i \in DOMAIN s : IF s[i] = "%" THEN badEscape(i)
                             ELSE ~digit(i) /\ badByte(i)
        THEN Failed
      ELSE [ok |-> TRUE,
            s  |-> LET kept == SelectSeq([i \in DOMAIN s |-> i], LAMBDA i : ~digit(i))
                   IN  [j \in DOMAIN kept |-> byte(kept[j])]]

\* stringContainsCTLByte: a byte below 0x20, or 0x7f; none is a printable character
CTLBytes == {Chr(n) : n \in 0..31} \cup {Chr(127)}

StringContainsCTLByte(s) == \E i \in DOMAIN s : s[i] \in CTLBytes

\* getScheme: [ok, scheme, rest]
RECURSIVE GetSchemeFrom(_, _)
GetSchemeFrom(raw, i) ==
  IF i > Len(raw) THEN [ok |-> TRUE, scheme |-> <<>>, rest |-> raw]
  ELSE IF IsLetter(raw[i]) THEN GetSchemeFrom(raw, i + 1)
  ELSE IF IsDigit(raw[i]) \/ raw[i] \in {"+", "-", "."} THEN
    IF i = 1 THEN [ok |-> TRUE, scheme |-> <<>>, rest |-> raw]
    ELSE GetSchemeFrom(raw, i + 1)
  ELSE IF raw[i] = ":" THEN
    IF i = 1 THEN [ok |-> FALSE, scheme |-> <<>>, rest |-> <<>>]
    ELSE [ok |-> TRUE, scheme |-> Take(raw, i - 1), rest |-> Drop(raw, i)]
  ELSE [ok |-> TRUE, scheme |-> <<>>, rest |-> raw]

GetScheme(raw) == GetSchemeFrom(raw, 1)

\* validOptionalPort: "" or ":" followed by digits only
ValidOptionalPort(port) ==
  \/ port = <<>>
  \/ /\ port[1] = ":"
     /\ \A i \in 2..Len(port) : IsDigit(port[i])

\* the port check of parseHost: after the last "]" of a bracketed host, else
\* from the last ":" on
HostPortOk(host, bracket, colon) ==
  IF HasPrefix(host, <<"[">>) THEN bracket # 0 /\ ValidOptionalPort(Drop(host, bracket))
  ELSE colon = 0 \/ ValidOptionalPort(Drop(host, colon - 1))

\* parseHost: [ok, s]
ParseHost(host) ==
  IF HostPortOk(host, LastIndex(host, <<"]">>), LastIndex(host, <<":">>))
    THEN Unescape(host, "host")
  ELSE Failed

\* validUserinfo
ValidUserinfo(s) ==
  \A i \in DOMAIN s :
    \/ IsLetter(s[i]) \/ IsDigit(s[i])
    \/ s[i] \in {"-", ".", "_", ":", "~", "!", "$", "&", "'", "(", ")", "*", "+",
                 ",", ";", "=", "%", "@"}

\* the user information of parseAuthority: valid, and the name and the password
\* (cut at the first ":") unescape
UserinfoOk(userinfo) ==
  /\ ValidUserinfo(userinfo)
  /\ Unescape(Cut(userinfo, <<":">>)[1], "path").ok
  /\ Unescape(Cut(userinfo, <<":">>)[2], "path").ok

AuthorityAt(authority, i) ==
  IF i = 0 \/ UserinfoOk(Take(authority, i - 1)) THEN ParseHost(Drop(authority, i))
  ELSE Failed

\* parseAuthority: [ok, s], s the host; the user information before the last
\* "@" is checked and dropped
ParseAuthority(authority) == AuthorityAt(authority, LastIndex(authority, <<"@">>))

NoURL == [ok |-> FALSE, Host |-> <<>>, Path |-> <<>>, RawQuery |-> <<>>]

\* url.setPath: the path is unescaped
SetPath(host, p, rawQuery) ==
  IF p.ok THEN [ok |-> TRUE, Host |-> host, Path |-> p.s, RawQuery |-> rawQuery] ELSE NoURL

HostThenPath(h, rest, rawQuery) ==
  IF h.ok THEN SetPath(h.s, Unescape(rest, "path"), rawQuery) ELSE NoURL

\* the authority runs from after "//" to the next "/" (i: its position, 0 if none)
AuthorityThenPath(s, i, rawQuery) ==
  HostThenPath(ParseAuthority(IF i = 0 THEN s ELSE Take(s, i - 1)),
               IF i = 0 THEN <<>> ELSE Drop(s, i - 1), rawQuery)

\* parse, after the scheme and the query are split off
ParseRest(scheme, rest, rawQuery) ==
  IF ~HasPrefix(rest, <<"/">>) /\ scheme # <<>>
    THEN [ok |-> TRUE, Host |-> <<>>, Path |-> <<>>, RawQuery |-> rawQuery]
  ELSE IF ~HasPrefix(rest, <<"/">>) /\ Contains(Cut(rest, <<"/">>)[1], <<":">>) THEN NoURL
  ELSE IF HasPrefix(rest, <<"/","/">>) /\ (scheme # <<>> \/ ~HasPrefix(rest, <<"/","/","/">>))
    THEN AuthorityThenPath(Drop(rest, 2), Index(Drop(rest, 2), <<"/">>), rawQuery)
  ELSE SetPath(<<>>, Unescape(rest, "path"), rawQuery)

\* the query is what follows the first "?"; a lone trailing "?" is dropped
ParseAfterScheme(scheme, rest) ==
  IF HasSuffix(rest, <<"?">>) /\ Count(rest, "?") = 1
    THEN ParseRest(scheme, Take(rest, Len(rest) - 1), <<>>)
  ELSE ParseRest(scheme, Cut(rest, <<"?">>)[1], Cut(rest, <<"?">>)[2])

ParseScheme(gs) == IF gs.ok THEN ParseAfterScheme(gs.scheme, gs.rest) ELSE NoURL

\* parse(rawURL, viaRequest = false): [ok, Host, Path, RawQuery]
ParseNoFragment(raw) ==
  IF StringContainsCTLByte(raw) THEN NoURL
  ELSE IF raw = <<"*">> THEN [ok |-> TRUE, Host |-> <<>>, Path |-> <<"*">>, RawQuery |-> <<>>]
  ELSE ParseScheme(GetScheme(raw))

\* url.Parse: the fragment is cut off and checked, the rest is parsed
Parse(raw) ==
  IF Unescape(Cut(raw, <<"#">>)[2], "fragment").ok THEN ParseNoFragment(Cut(raw, <<"#">>)[1])
  ELSE NoURL

EmptyMap == [k \in {} |-> <<>>]

\* m[k] = []T{v}: the earlier values of the key are lost
MapOverwrite(m, k, v) == (k :> <<v>>) @@ m

\* m[k] = append(m[k], v) on a Go map of slices
MapAppend(m, k, v) ==
  IF k \in DOMAIN m THEN [m EXCEPT ![k] = Append(@, v)] ELSE m @@ (k :> <<v>>)

\* one "&"-separated pair of url.ParseQuery, its key and value unescaped
AddPair(m, k, v) == IF k.ok /\ v.ok THEN MapAppend(m, k.s, v.s) ELSE m

QueryPair(m, pair) ==
  IF Contains(pair, <<";">>) \/ pair = <<>> THEN m
  ELSE AddPair(m, Unescape(Cut(pair, <<"=">>)[1], "query"), Unescape(Cut(pair, <<"=">>)[2], "query"))

\* url.ParseQuery as URL.Query() calls it: the error is dropped, and so is every
\* "&"-separated pair that is empty, holds a semicolon or does not unescape
RECURSIVE ParseQueryInto(_, _)
ParseQueryInto(m, query) ==
  IF query = <<>> THEN m
  ELSE ParseQueryInto(QueryPair(m, Cut(query, <<"&">>)[1]), Cut(query, <<"&">>)[2])

\* URL.Query()
Query(u) == ParseQueryInto(EmptyMap, u.RawQuery)

\* strings.Split(s, sep) for a non-empty separator
RECURSIVE Split(_, _)
Split(s, sep) ==
  LET c == Cut(s, sep)
  IN  IF c[3] THEN <<c[1]>> \o Split(c[2], sep) ELSE <<s>>

\* fmt's %-Ns verb: s, then spaces up to width n
Pad(s, n) == s \o [i \in 1..(n - Len(s)) |-> " "]

\* sort.Strings, by insertion
RECURSIVE Insert(_, _)
Insert(x, sorted) ==
  IF sorted = <<>> THEN <<x>>
  ELSE IF StrLess(x, sorted[1]) THEN <<x>> \o sorted
  ELSE <<sorted[1]>> \o Insert(x, Tail(sorted))

RECURSIVE InsertionSort(_)
InsertionSort(ss) == IF ss = <<>> THEN <<>> ELSE Insert(ss[1], InsertionSort(Tail(ss)))

\* the slice left in insertion order
UnsortedStrings(ss) == ss

SortStrings(ss) == InsertionSort(ss)

(***************************************************************************)
(* The main converter's functions and per-entry computations               *)
(***************************************************************************)

MethodWidth == 10

PathWidth == 50

QueryWidth == 50

HostWidth == 30

\* isTextContentType
isTextContentType(contentType) ==
  LET lower == ToLower(contentType)
  IN  Contains(lower, <<"j","s","o","n">>) \/ Contains(lower, <<"t","e","x","t">>) \/ Contains(lower, <<"x","m","l">>)

\* truncate of the main converter
truncate(s, max) ==
  IF Len(s) <= max THEN s
  ELSE IF max <= 3 THEN Take(s, max)
  ELSE Take(s, max - 3) \o <<".",".",".">>

\* a matcher of another kind
GlobMatcher(v) == [Matcher |-> "glob", Value |-> v]

\* FieldMatcher{Matcher: "exact", Value: v}
ExactMatcher(v) == [Matcher |-> "exact", Value |-> v]

\* a host filter by substring, as the variant converter filters
MainIncludedBySubstring(hostFilter, u) ==
  u.ok /\ (hostFilter = <<>> \/ Contains(u.Host, hostFilter))

\* the two `continue` guards at the head of both loops of the main converter
MainIncluded(hostFilter, u) == u.ok /\ (hostFilter = <<>> \/ u.Host = hostFilter)

\* the summary row of one entry
SummaryRow(r, u) ==
  Pad(truncate(r.Method, MethodWidth), MethodWidth) \o <<" ">>
    \o Pad(truncate(u.Path, PathWidth), PathWidth) \o <<" ">>
    \o Pad(truncate(u.RawQuery, QueryWidth), QueryWidth)

\* the loop over r.Headers building reqHeaders
RECURSIVE ReqHeadersInto(_, _)
ReqHeadersInto(m, hs) ==
  IF hs = <<>> THEN m
  ELSE ReqHeadersInto(MapAppend(m, hs[1].Name, ExactMatcher(hs[1].Value)), Tail(hs))

\* appending the matchers of one key of URL.Query()
RECURSIVE AppendMatchers(_, _, _)
AppendMatchers(m, key, values) ==
  IF values = <<>> THEN m
  ELSE AppendMatchers(MapAppend(m, key, ExactMatcher(values[1])), key, Tail(values))

\* the loop over u.Query() building reqQuery; the keys' iteration order is
\* unspecified in Go and does not show in the resulting map
RECURSIVE ReqQueryInto(_, _, _)
ReqQueryInto(m, q, keys) ==
  IF keys = {} THEN m
  ELSE LET key == CHOOSE k \in keys : TRUE
       IN  ReqQueryInto(AppendMatchers(m, key, q[key]), q, keys \ {key})

ReqQuery(q) == ReqQueryInto(EmptyMap, q, DOMAIN q)

\* the loop over entry.Response.Headers: [contentType, headersMap]
RECURSIVE RespHeadersInto(_, _)
RespHeadersInto(acc, hs) ==
  IF hs = <<>> THEN acc
  ELSE RespHeadersInto(
         [contentType |-> IF ToLower(hs[1].Name) = <<"c","o","n","t","e","n","t","-","t","y","p","e">> THEN hs[1].Value
                          ELSE acc.contentType,
          headersMap  |-> MapAppend(acc.headersMap, hs[1].Name, hs[1].Value)],
         Tail(hs))

RespHeaders(hs) == RespHeadersInto([contentType |-> <<>>, headersMap |-> EmptyMap], hs)

SKIPPED == <<"N","O","N","_","T","E","X","T","_","R","E","S","P","O","N","S","E","_","S","K","I","P","P","E","D">>

\* the classification taken the wrong way round
MainResponseBodySkipsText(text, contentType, maxResponseSize, skipNonText) ==
  IF skipNonText /\ isTextContentType(contentType) THEN SKIPPED
  ELSE IF maxResponseSize >= 0 /\ Len(text) > maxResponseSize THEN <<>>
  ELSE text

\* the two independent conditionals on responseBody
MainResponseBody(text, contentType, maxResponseSize, skipNonText) ==
  LET sized == IF maxResponseSize >= 0 /\ Len(text) > maxResponseSize THEN <<>> ELSE text
  IN  IF skipNonText /\ ~isTextContentType(contentType) THEN SKIPPED ELSE sized

\* Labels: []string{}
MainLabels(r) == <<>>

\* the Pair literal and the optional body matcher; rh is what the loop over the
\* response headers left
MainPair(entry, u, rh, maxResponseSize, skipNonText) ==
  [Request  |-> [Method      |-> <<ExactMatcher(entry.Request.Method)>>,
                 Destination |-> <<ExactMatcher(u.Host)>>,
                 Path        |-> <<ExactMatcher(u.Path)>>,
                 Body        |-> IF entry.Request.PostData # <<>>
                                   THEN <<ExactMatcher(entry.Request.PostData)>>
                                 ELSE <<>>,
                 Headers     |-> ReqHeadersInto(EmptyMap, entry.Request.Headers),
                 Query       |-> ReqQuery(Query(u))],
   Response |-> [Status  |-> entry.Response.Status,
                 Body    |-> MainResponseBody(entry.Response.Text, rh.contentType,
                                              maxResponseSize, skipNonText),
                 Headers |-> rh.headersMap],
   Labels   |-> MainLabels(entry.Request)]

\* the pair put in front of the list
PrependPair(ps, p) == <<p>> \o ps

\* sim.Data.Pairs = append(sim.Data.Pairs, pair)
AppendPair(ps, p) == Append(ps, p)

(***************************************************************************)
(* The variant converter's functions                                       *)
(***************************************************************************)

\* isTextContent
isTextContent(mimeType, allowed) ==
  \E i \in DOMAIN allowed : Contains(ToLower(mimeType), allowed[i])

OrEmptyURL(u) ==
  IF u.ok THEN [Host |-> u.Host, Path |-> u.Path] ELSE [Host |-> <<>>, Path |-> <<>>]

\* parseURL: a URL that fails to parse becomes the empty URL
parseURL(raw) == OrEmptyURL(Parse(raw))

\* truncate of the variant converter
vtruncate(s, max) == IF Len(s) > max THEN Take(s, max - 3) \o <<".",".",".">> ELSE s

\* FieldMatcher{Matcher: "exact", Value: v} in convertEntryToPair
VExactMatcher(v) == [Matcher |-> "exact", Value |-> v]

\* no label, as the main converter labels
VariantLabelsEmpty(req) == <<>>

\* Labels: []string{req.Method}
VariantLabels(req) == <<req.Method>>

VariantPair(entry, sizeLimit, reqURL) ==
  [Request  |-> [Method      |-> <<VExactMatcher(entry.Request.Method)>>,
                 Destination |-> <<VExactMatcher(reqURL.Host)>>,
                 Path        |-> <<VExactMatcher(reqURL.Path)>>,
                 Body        |-> <<>>,
                 Headers     |-> EmptyMap,
                 Query       |-> EmptyMap],
   Response |-> [Status  |-> entry.Response.Status,
                 Body    |-> IF sizeLimit > 0 /\ Len(entry.Response.Text) > sizeLimit
                               THEN <<>>
                             ELSE entry.Response.Text,
                 Headers |-> (<<"C","o","n","t","e","n","t","-","T","y","p","e">> :> <<entry.Response.MimeType>>)],
   Labels   |-> VariantLabels(entry.Request)]

\* convertEntryToPair
convertEntryToPair(entry, sizeLimit) ==
  VariantPair(entry, sizeLimit, parseURL(entry.Request.URL))

\* table[host][reqURL.Path][req.Method] = true
TableKey(reqURL, method) == <<reqURL.Host, reqURL.Path, method>>

\* the two `continue` guards of the variant converter's loop
VariantIncluded(entry, restrictHost, ignoreNonText, allowed) ==
  /\ restrictHost = <<>> \/ Contains(entry.Request.URL, restrictHost)
  /\ ~ignoreNonText \/ isTextContent(entry.Response.MimeType, allowed)

\* one printed line of the variant converter's summary
VariantRow(host, method, path) ==
  Pad(host, HostWidth) \o <<" ">> \o Pad(method, MethodWidth) \o <<" ">>
    \o Pad(vtruncate(path, PathWidth), PathWidth) \o <<" ">> \o Pad(<<>>, QueryWidth)

(***************************************************************************)
(* Inputs: the HAR entries and the command lines                           *)
(***************************************************************************)

H(name, value) == [Name |-> name, Value |-> value]

Entry(method, url, reqHeaders, postData, status, respHeaders, mimeType, text) ==
  [Request  |-> [Method |-> method, URL |-> url, Headers |-> reqHeaders,
                 PostData |-> postData],
   Response |-> [Status |-> status, Headers |-> respHeaders, MimeType |-> mimeType,
                 Text |-> text]]

\* repeated request headers and query keys, repeated response headers
EntryItems ==
  Entry(<<"G","E","T">>, <<"h","t","t","p",":","/","/","a","p","i",".","i","o","/","i","t","e","m","s","?","k","=","1","&","j","=","2","&","k","=","3">>,
        <<H(<<"A","c","c","e","p","t">>, <<"j","s","o","n">>), H(<<"X","-","A">>, <<"1">>), H(<<"A","c","c","e","p","t">>, <<"x","m","l">>)>>, <<>>, 200,
        <<H(<<"C","o","n","t","e","n","t","-","T","y","p","e">>, <<"t","e","x","t","/","p","l","a","i","n">>), H(<<"S","e","t","-","C","o","o","k","i","e">>, <<"a">>), H(<<"S","e","t","-","C","o","o","k","i","e">>, <<"b">>)>>,
        <<"t","e","x","t","/","p","l","a","i","n">>, <<"o","k">>)

\* a request body, a non-text response, query pairs that URL.Query() drops
EntryShoe ==
  Entry(<<"P","O","S","T">>, <<"h","t","t","p",":","/","/","a","p","i",".","i","o","/","s","h","o","e","?","q","=","%","z","z","&","q","=","1","&","a",";","b","=","2","&","+","=","%","4","1">>, <<>>, <<"x","=","1">>, 201,
        <<H(<<"c","o","n","t","e","n","t","-","t","y","p","e">>, <<"I","M","A","G","E","/","P","N","G">>)>>, <<"I","M","A","G","E","/","P","N","G">>, <<"P","N","G","D","A","T","A">>)

\* another host whose URL holds "api.io" in its path; no content type, no body
EntryCdn ==
  Entry(<<"G","E","T">>, <<"h","t","t","p",":","/","/","c","d","n",".","i","o","/","a","p","i",".","i","o">>, <<>>, <<>>, 404, <<>>, <<>>, <<>>)

\* a port, an escaped path, a fragment, two content types of which the last counts
EntryPort ==
  Entry(<<"P","U","T">>, <<"h","t","t","p",":","/","/","a","p","i",".","i","o",":","8","0","/","a","%","2","0","b","#","f","r","a","g">>, <<H(<<"A","c","c","e","p","t">>, <<"*","/","*">>)>>, <<"<","a","/",">">>, 204,
        <<H(<<"C","o","n","t","e","n","t","-","T","y","p","e">>, <<"i","m","a","g","e","/","p","n","g">>), H(<<"C","O","N","T","E","N","T","-","T","Y","P","E">>, <<"T","e","x","t","/","X","M","L">>)>>,
        <<"T","e","x","t","/","X","M","L">>, <<"<","a","/",">">>)

\* a method, a path and a query longer than their columns
EntryLong ==
  Entry(<<"P","R","O","P","P","A","T","C","H","I","N","G">>,
        <<"h","t","t","p",":","/","/","c","d","n",".","i","o","/","a","s","s","e","t","s","/","f","o","n","t","s","/","v","1","2","/","a","-","v","e","r","y","-","l","o","n","g","-","f","o","n","t","-","f","i","l","e","-","n","a","m","e",".","r","e","g","u","l","a","r",".","w","o","f","f","2","?","v","e","r","s","i","o","n","=","0","1","2","3","4","5","6","7","8","9","a","b","c","d","e","f","0","1","2","3","4","5","6","7","8","9","a","b","c","d","e","f","0","1","2","3","4","5","6","7","8","9","a","b","c","d","e","f">>,
        <<>>, <<>>, 200, <<H(<<"C","o","n","t","e","n","t","-","T","y","p","e">>, <<"f","o","n","t","/","w","o","f","f","2">>)>>, <<"f","o","n","t","/","w","o","f","f","2">>, <<"W","O","F","F">>)

\* a URL that does not parse although it names the host: a bad escape in the path
EntryBadEscape ==
  Entry(<<"G","E","T">>, <<"h","t","t","p",":","/","/","a","p","i",".","i","o","/","%","z","z">>, <<>>, <<>>, 200,
        <<H(<<"C","o","n","t","e","n","t","-","T","y","p","e">>, <<"A","p","p","l","i","c","a","t","i","o","n","/","J","S","O","N">>)>>, <<"A","p","p","l","i","c","a","t","i","o","n","/","J","S","O","N">>, <<"[","]">>)

EntryPool ==
  {EntryItems, EntryShoe, EntryCdn, EntryPort, EntryLong, EntryBadEscape}

MaxEntries == 3

HarLogs == UNION {[1..n -> EntryPool] : n \in 0..MaxEntries}

\* --host: none, or a host of the log
HostFlags == {<<>>, <<"a","p","i",".","i","o">>}

\* --max-response-bytes: unlimited by default (-1)
MaxResponseSizeFlags == {-1, 2}

\* --max-body-bytes: unlimited by default (0)
SizeLimitFlags == {0, 2}

\* --allowed-content-types: the default and one override
DefaultAllowedTypes == <<"j","s","o","n",",","x","m","l",",","t","e","x","t","/","h","t","m","l",",","t","e","x","t","/","j","a","v","a","s","c","r","i","p","t">>

AllowedTypesFlags == {DefaultAllowedTypes, <<"p","n","g">>}

\* the command lines of the main converter; a flag the summary mode does not
\* read is left at its default
MainFlags ==
  [hostFilter : HostFlags, maxResponseSize : MaxResponseSizeFlags,
   skipNonText : BOOLEAN, summarise : {FALSE}]
  \cup [hostFilter : HostFlags, maxResponseSize : {-1}, skipNonText : {FALSE},
        summarise : {TRUE}]

\* the command lines of the variant converter; the size limit is left at its
\* default in summary mode, and so is the list of content types unless
\* --ignore-non-text makes it count
VariantFlags ==
  {f \in [restrictHost : HostFlags, sizeLimit : SizeLimitFlags, ignoreNonText : BOOLEAN,
          allowedTypes : AllowedTypesFlags, summarise : BOOLEAN] :
     /\ f.summarise => f.sizeLimit = 0
     /\ ~f.ignoreNonText => f.allowedTypes = DefaultAllowedTypes}

(***************************************************************************)
(* The run: one pass over the entries, then the output                     *)
(***************************************************************************)

VARIABLES
  prog,        \* "main" or "variant": which converter runs
  flags,       \* the parsed command line
  har,         \* har.Log.Entries
  pc,          \* "loop", "print" or "done"
  idx,         \* the index of the entry the loop handles next
  pairs,       \* sim.Data.Pairs
  origin,      \* history: origin[k] is the index of the entry pairs[k] was built from
  summaryMap,  \* main converter: host -> rows
  table,       \* variant converter: the <<host, path, method>> of table[host][path][method]
  pending,     \* the map keys the printing loop has not visited yet
  lastRow,     \* variant converter: the key printed last
  out,         \* the lines printed on standard output
  doc          \* the simulation document written at the end, <<>> before

vars == <<prog, flags, har, pc, idx, pairs, origin, summaryMap, table, pending,
          lastRow, out, doc>>

NoRow == <<>>

Init ==
  /\ prog \in {"main", "variant"}
  /\ flags \in IF prog = "main" THEN MainFlags ELSE VariantFlags
  /\ har \in HarLogs
  /\ pc = "loop"
  /\ idx = 1
  /\ pairs = <<>>
  /\ origin = <<>>
  /\ summaryMap = EmptyMap
  /\ table = {}
  /\ pending = {}
  /\ lastRow = NoRow
  /\ out = <<>>
  /\ doc = <<>>

\* the body of the summary loop, u being url.Parse(r.URL)
SummariseInto(m, hostFilter, r, u) ==
  IF MainIncluded(hostFilter, u) THEN MapAppend(m, u.Host, SummaryRow(r, u)) ELSE m

\* one iteration of the main converter's summary loop
MainSummariseEntry ==
  /\ prog = "main" /\ flags.summarise /\ pc = "loop" /\ idx <= Len(har)
  /\ summaryMap' = SummariseInto(summaryMap, flags.hostFilter, har[idx].Request,
                                 Parse(har[idx].Request.URL))
  /\ idx' = idx + 1
  /\ UNCHANGED <<prog, flags, har, pc, pairs, origin, table, pending, lastRow, out, doc>>

\* the summary loop ends and the range over summaryMap starts
MainSummariseEnd ==
  /\ prog = "main" /\ flags.summarise /\ pc = "loop" /\ idx > Len(har)
  /\ pc' = "print"
  /\ pending' = DOMAIN summaryMap
  /\ UNCHANGED <<prog, flags, har, idx, pairs, origin, summaryMap, table, lastRow, out, doc>>

\* one iteration of the range over summaryMap, in the order the map yields
MainPrintSection ==
  /\ prog = "main" /\ pc = "print"
  /\ \E host \in pending :
       LET summaries == SortStrings(summaryMap[host])
       IN  /\ summaryMap' = [summaryMap EXCEPT ![host] = summaries]
           /\ out' = out \o <<<<>>, <<"H","O","S","T",":"," ">> \o host,
                              <<" "," ">> \o Pad(<<"M","E","T","H","O","D">>, MethodWidth) \o <<" ">>
                                \o Pad(<<"P","A","T","H">>, PathWidth) \o <<" ">>
                                \o Pad(<<"Q","U","E","R","Y">>, QueryWidth)>>
                         \o [k \in DOMAIN summaries |-> <<" "," "," ">> \o summaries[k]]
           /\ pending' = pending \ {host}
  /\ UNCHANGED <<prog, flags, har, pc, idx, pairs, origin, table, lastRow, doc>>

\* the range is over and main returns
MainPrintEnd ==
  /\ prog = "main" /\ pc = "print" /\ pending = {}
  /\ pc' = "done"
  /\ UNCHANGED <<prog, flags, har, idx, pairs, origin, summaryMap, table, pending,
                 lastRow, out, doc>>

\* the body of the simulation loop, u being url.Parse(r.URL)
ConvertEntry(entry, u) ==
  IF MainIncluded(flags.hostFilter, u)
    THEN /\ pairs' = AppendPair(pairs, MainPair(entry, u, RespHeaders(entry.Response.Headers),
                                                flags.maxResponseSize, flags.skipNonText))
         /\ origin' = Append(origin, idx)
  ELSE UNCHANGED <<pairs, origin>>

\* one iteration of the main converter's simulation loop
MainConvertEntry ==
  /\ prog = "main" /\ ~flags.summarise /\ pc = "loop" /\ idx <= Len(har)
  /\ ConvertEntry(har[idx], Parse(har[idx].Request.URL))
  /\ idx' = idx + 1
  /\ UNCHANGED <<prog, flags, har, pc, summaryMap, table, pending, lastRow, out, doc>>

SchemaVersion == "v5.3"

\* the simulation is marshalled and written (to the file or standard output)
Emit ==
  /\ ~flags.summarise /\ pc = "loop" /\ idx > Len(har)
  /\ doc' = <<[pairs |-> pairs, delays |-> <<>>, schemaVersion |-> SchemaVersion]>>
  /\ pc' = "done"
  /\ UNCHANGED <<prog, flags, har, idx, pairs, origin, summaryMap, table, pending,
                 lastRow, out>>

\* one iteration of the variant converter's loop
VariantEntry ==
  /\ prog = "variant" /\ pc = "loop" /\ idx <= Len(har)
  /\ IF ~VariantIncluded(har[idx], flags.restrictHost, flags.ignoreNonText,
                         Split(flags.allowedTypes, <<",">>))
       THEN UNCHANGED <<pairs, origin, table>>
     ELSE IF flags.summarise
       THEN /\ table' = table \cup {TableKey(parseURL(har[idx].Request.URL),
                                             har[idx].Request.Method)}
            /\ UNCHANGED <<pairs, origin>>
     ELSE /\ pairs' = AppendPair(pairs, convertEntryToPair(har[idx], flags.sizeLimit))
          /\ origin' = Append(origin, idx)
          /\ UNCHANGED table
  /\ idx' = idx + 1
  /\ UNCHANGED <<prog, flags, har, pc, summaryMap, pending, lastRow, out, doc>>

\* the variant converter's loop ends in summary mode: the column header is printed
VariantPrintHeader ==
  /\ prog = "variant" /\ flags.summarise /\ pc = "loop" /\ idx > Len(har)
  /\ out' = <<Pad(<<"H","O","S","T">>, HostWidth) \o <<" ">> \o Pad(<<"M","E","T","H","O","D">>, MethodWidth) \o <<" ">>
                \o Pad(<<"P","A","T","H">>, PathWidth) \o <<" ">> \o Pad(<<"Q","U","E","R","Y">>, QueryWidth)>>
  /\ pending' = table
  /\ pc' = "print"
  /\ UNCHANGED <<prog, flags, har, idx, pairs, origin, summaryMap, table, lastRow, doc>>

\* the keys the nested ranges over table may yield next: the methods of the
\* current path first, then the paths of the current host, then any host
NextRows ==
  LET samePath == {t \in pending : lastRow # NoRow /\ t[1] = lastRow[1] /\ t[2] = lastRow[2]}
      sameHost == {t \in pending : lastRow # NoRow /\ t[1] = lastRow[1]}
  IN  IF samePath # {} THEN samePath ELSE IF sameHost # {} THEN sameHost ELSE pending

\* one line of the variant converter's summary
VariantPrintRow ==
  /\ prog = "variant" /\ pc = "print"
  /\ \E t \in NextRows :
       /\ out' = Append(out, VariantRow(t[1], t[3], t[2]))
       /\ pending' = pending \ {t}
       /\ lastRow' = t
  /\ UNCHANGED <<prog, flags, har, pc, idx, pairs, origin, summaryMap, table, doc>>

\* the nested ranges are over and main returns
VariantPrintEnd ==
  /\ prog = "variant" /\ pc = "print" /\ pending = {}
  /\ pc' = "done"
  /\ UNCHANGED <<prog, flags, har, idx, pairs, origin, summaryMap, table, pending,
                 lastRow, out, doc>>

Next ==
  \/ MainSummariseEntry
  \/ MainSummariseEnd
  \/ MainPrintSection
  \/ MainPrintEnd
  \/ MainConvertEntry
  \/ Emit
  \/ VariantEntry
  \/ VariantPrintHeader
  \/ VariantPrintRow
  \/ VariantPrintEnd

Spec == Init /\ [][Next]_vars

(***************************************************************************)
(* Properties                                                              *)
(***************************************************************************)

MainSimulation == prog = "main" /\ ~flags.summarise

\* the entry pairs[k] was built from, and its parsed URL
EntryOf(k) == har[origin[k]]

URLOf(k) == Parse(EntryOf(k).Request.URL)

\* the indices of the entries the loop has handled
Handled == 1..(idx - 1)

\* the response body exceeds a configured --max-response-bytes
OverLimit(entry) ==
  flags.maxResponseSize >= 0 /\ Len(entry.Response.Text) > flags.maxResponseSize

\* the value of the last response header named content-type in any case, "" if none
ContentTypeOf(entry) ==
  LET hs == entry.Response.Headers
      at == {i \in DOMAIN hs : ToLower(hs[i].Name) = <<"c","o","n","t","e","n","t","-","t","y","p","e">>}
  IN  IF at = {} THEN <<>> ELSE hs[CHOOSE i \in at : \A j \in at : j <= i].Value

\* C1: in the main converter's simulation mode, the emitted response body of
\* every entry whose response body is longer than --max-response-bytes is the
\* empty string, whatever its content type and whether or not --skip-non-text
\* is set.
C1_OversizedBodyIsEmpty ==
  MainSimulation =>
    \A k \in DOMAIN pairs : OverLimit(EntryOf(k)) => pairs[k].Response.Body = <<>>

\* C2: in the main converter's simulation mode, the emitted response body of
\* every entry within the size limit (or without a limit) is the literal
\* NON_TEXT_RESPONSE_SKIPPED when --skip-non-text is set and the response
\* content type is non-text, and the captured body otherwise.
C2_BodyWithinLimit ==
  MainSimulation =>
    \A k \in DOMAIN pairs :
      ~OverLimit(EntryOf(k)) =>
        pairs[k].Response.Body =
          IF flags.skipNonText /\ ~isTextContentType(ContentTypeOf(EntryOf(k)))
            THEN <<"N","O","N","_","T","E","X","T","_","R","E","S","P","O","N","S","E","_","S","K","I","P","P","E","D">>
          ELSE EntryOf(k).Response.Text

\* a limit is set, one body within it is replaced by the literal and another,
\* non-empty one is passed through
C2_Witness ==
  /\ MainSimulation /\ flags.maxResponseSize >= 0 /\ pc = "done"
  /\ \E k \in DOMAIN pairs :
       ~OverLimit(EntryOf(k)) /\ pairs[k].Response.Body = <<"N","O","N","_","T","E","X","T","_","R","E","S","P","O","N","S","E","_","S","K","I","P","P","E","D">>
  /\ \E k \in DOMAIN pairs :
       /\ ~OverLimit(EntryOf(k)) /\ EntryOf(k).Response.Text # <<>>
       /\ pairs[k].Response.Body = EntryOf(k).Response.Text

\* the entries of the main converter whose URL parses with host h
WithHost(h) ==
  {j \in DOMAIN har : Parse(har[j].Request.URL).ok /\ Parse(har[j].Request.URL).Host = h}

\* C3: in the main converter's simulation mode with a non-empty --host H, a
\* pair is emitted for an entry exactly if its URL parses and its host equals
\* H; every emitted destination matcher has the value H, and the document has
\* no pair when no entry has the host H.
C3_HostFilterIsExact ==
  (MainSimulation /\ flags.hostFilter # <<>>) =>
    /\ {origin[k] : k \in DOMAIN origin} = WithHost(flags.hostFilter) \cap Handled
    /\ Len(pairs) = Len(origin)
    /\ \A k \in DOMAIN pairs :
         /\ Len(pairs[k].Request.Destination) = 1
         /\ pairs[k].Request.Destination[1].Value = flags.hostFilter
    /\ (pc = "done" /\ WithHost(flags.hostFilter) = {}) => doc[1].pairs = <<>>

\* a pair is emitted for the host, and an entry whose host only holds the
\* filter as a substring is left out
C3_Witness ==
  /\ MainSimulation /\ flags.hostFilter # <<>> /\ pc = "done"
  /\ doc[1].pairs # <<>>
  /\ \E j \in DOMAIN har :
       /\ Parse(har[j].Request.URL).ok
       /\ Contains(Parse(har[j].Request.URL).Host, flags.hostFilter)
       /\ j \notin {origin[k] : k \in DOMAIN origin}

\* C4: in the variant converter, an entry whose request URL fails to parse
\* contributes no pair to the simulation and no row to the summary.
C4_VariantSkipsUnparseable ==
  prog = "variant" =>
    /\ \A k \in DOMAIN pairs : URLOf(k).ok
    /\ \A t \in table :
         \E j \in Handled :
           /\ Parse(har[j].Request.URL).ok
           /\ t = <<Parse(har[j].Request.URL).Host, Parse(har[j].Request.URL).Path,
                    har[j].Request.Method>>

\* every FieldMatcher of a pair's request
MatchersOf(pair) ==
  LET r == pair.Request
      inSeq(ms) == {ms[i] : i \in DOMAIN ms}
  IN  inSeq(r.Method) \cup inSeq(r.Destination) \cup inSeq(r.Path) \cup inSeq(r.Body)
        \cup UNION {inSeq(r.Headers[n]) : n \in DOMAIN r.Headers}
        \cup UNION {inSeq(r.Query[key]) : key \in DOMAIN r.Query}

\* C5: every FieldMatcher of every pair, in the pair list and in the emitted
\* document, of either converter, has the matcher kind "exact".
C5_OnlyExactMatchers ==
  /\ \A k \in DOMAIN pairs : \A m \in MatchersOf(pairs[k]) : m.Matcher = "exact"
  /\ \A d \in DOMAIN doc :
       \A k \in DOMAIN doc[d].pairs :
         \A m \in MatchersOf(doc[d].pairs[k]) : m.Matcher = "exact"

\* the emitted document holds body, header and query matchers
C5_Witness ==
  /\ pc = "done" /\ doc # <<>>
  /\ \E k \in DOMAIN doc[1].pairs : doc[1].pairs[k].Request.Body # <<>>
  /\ \E k \in DOMAIN doc[1].pairs : DOMAIN doc[1].pairs[k].Request.Headers # {}
  /\ \E k \in DOMAIN doc[1].pairs : DOMAIN doc[1].pairs[k].Request.Query # {}

\* the entry passes the converter's filters
IncludedEntry(j) ==
  IF prog = "main" THEN MainIncluded(flags.hostFilter, Parse(har[j].Request.URL))
  ELSE VariantIncluded(har[j], flags.restrictHost, flags.ignoreNonText,
                       Split(flags.allowedTypes, <<",">>))

\* the pair the converter builds from entry j
PairOf(j) ==
  IF prog = "main"
    THEN MainPair(har[j], Parse(har[j].Request.URL), RespHeaders(har[j].Response.Headers),
                  flags.maxResponseSize, flags.skipNonText)
  ELSE convertEntryToPair(har[j], flags.sizeLimit)

\* the included entries among the handled ones, in input order
IncludedSoFar == SelectSeq([j \in Handled |-> j], LAMBDA j : IncludedEntry(j))

PairsFollowInput ==
  ~flags.summarise =>
    /\ origin = IncludedSoFar
    /\ pairs = [k \in DOMAIN origin |-> PairOf(origin[k])]
    /\ \A d \in DOMAIN doc : doc[d].pairs = pairs /\ idx = Len(har) + 1

PairsOnlyAppended == pairs' = pairs \/ \E k \in DOMAIN pairs' : pairs' = Append(pairs, pairs'[k])

\* C6: in simulation mode the pair list holds one pair per included entry
\* handled so far and none for an excluded one, in input order; a step leaves
\* the list alone or appends one pair at its end; the document holds the list
\* of the whole pass.
C6_OnePairPerIncludedEntry == []PairsFollowInput /\ [][PairsOnlyAppended]_vars

\* two different entries are included and an entry between them is not
C6_Witness ==
  /\ ~flags.summarise /\ pc = "done" /\ Len(doc[1].pairs) = 2
  /\ doc[1].pairs[1] # doc[1].pairs[2]
  /\ origin[2] > origin[1] + 1

\* the values of the headers named n, in order
ValuesNamed(hs, n) ==
  LET at == SelectSeq([i \in DOMAIN hs |-> i], LAMBDA i : hs[i].Name = n)
  IN  [i \in DOMAIN at |-> hs[at[i]].Value]

Names(hs) == {hs[i].Name : i \in DOMAIN hs}

Exact(values) == [i \in DOMAIN values |-> [Matcher |-> "exact", Value |-> values[i]]]

HeaderMapsKeepEveryValue(k) ==
  /\ DOMAIN pairs[k].Request.Headers = Names(EntryOf(k).Request.Headers)
  /\ \A n \in Names(EntryOf(k).Request.Headers) :
       pairs[k].Request.Headers[n] = Exact(ValuesNamed(EntryOf(k).Request.Headers, n))
  /\ DOMAIN pairs[k].Response.Headers = Names(EntryOf(k).Response.Headers)
  /\ \A n \in Names(EntryOf(k).Response.Headers) :
       pairs[k].Response.Headers[n] = ValuesNamed(EntryOf(k).Response.Headers, n)

\* the "&"-separated pairs of a raw query, as [Name, Value], undecoded
RawPairs(rawQuery) ==
  LET segs == SelectSeq(Split(rawQuery, <<"&">>), LAMBDA seg : seg # <<>>)
  IN  [i \in DOMAIN segs |-> [Name |-> Cut(segs[i], <<"=">>)[1], Value |-> Cut(segs[i], <<"=">>)[2]]]

\* the pairs url.ParseQuery accepts, decoded
DecodedPairs(rawQuery) ==
  LET good == SelectSeq(Split(rawQuery, <<"&">>),
                        LAMBDA seg : /\ seg # <<>> /\ ~Contains(seg, <<";">>)
                                     /\ Unescape(Cut(seg, <<"=">>)[1], "query").ok
                                     /\ Unescape(Cut(seg, <<"=">>)[2], "query").ok)
  IN  [i \in DOMAIN good |-> [Name  |-> Unescape(Cut(good[i], <<"=">>)[1], "query").s,
                              Value |-> Unescape(Cut(good[i], <<"=">>)[2], "query").s]]

\* C7 as stated: the header maps keep every value, and under every query key
\* there is one matcher per occurrence of the key in the URL's query.
C7_OneMatcherPerOccurrence ==
  MainSimulation =>
    \A k \in DOMAIN pairs :
      LET raw == RawPairs(URLOf(k).RawQuery)
      IN  /\ HeaderMapsKeepEveryValue(k)
          /\ \A key \in Names(raw) :
               /\ key \in DOMAIN pairs[k].Request.Query
               /\ Len(pairs[k].Request.Query[key]) = Len(ValuesNamed(raw, key))

\* C7, amended: in the main converter's simulation mode the request header map
\* has under every name one exact matcher per request header of that name, in
\* order, the response header map one raw value per response header, in order,
\* and the query map has under every decoded key one exact matcher per pair of
\* the URL's query that url.ParseQuery accepts (not empty, no semicolon, key
\* and value unescape), holding the decoded value, in URL order.
C7_MapsKeepEveryAcceptedValue ==
  MainSimulation =>
    \A k \in DOMAIN pairs :
      LET decoded == DecodedPairs(URLOf(k).RawQuery)
      IN  /\ HeaderMapsKeepEveryValue(k)
          /\ DOMAIN pairs[k].Request.Query = Names(decoded)
          /\ \A key \in Names(decoded) :
               pairs[k].Request.Query[key] = Exact(ValuesNamed(decoded, key))

\* a pair with a repeated request header, a repeated query key and a repeated
\* response header, and a pair whose query lost a pair that does not unescape
C7_Witness ==
  /\ MainSimulation /\ pc = "done"
  /\ \E k \in DOMAIN pairs :
       /\ \E n \in DOMAIN pairs[k].Request.Headers : Len(pairs[k].Request.Headers[n]) = 2
       /\ \E key \in DOMAIN pairs[k].Request.Query : Len(pairs[k].Request.Query[key]) = 2
       /\ \E n \in DOMAIN pairs[k].Response.Headers : Len(pairs[k].Response.Headers[n]) = 2
  /\ \E k \in DOMAIN pairs :
       Len(DecodedPairs(URLOf(k).RawQuery)) < Len(RawPairs(URLOf(k).RawQuery))

\* C8 as stated: the labels of every pair, of either converter, are the
\* singleton of the request method of its entry.
C8_LabelsAreTheMethod ==
  \A k \in DOMAIN pairs : pairs[k].Labels = <<EntryOf(k).Request.Method>>

\* C8, amended: the labels of every pair of the variant converter are the
\* singleton of the request method of its entry; the labels of every pair of
\* the main converter are empty.
C8_LabelsByConverter ==
  \A k \in DOMAIN pairs :
    pairs[k].Labels = IF prog = "variant" THEN <<EntryOf(k).Request.Method>> ELSE <<>>

\* the variant converter has emitted pairs of two different methods
C8_Witness ==
  /\ prog = "variant" /\ ~flags.summarise /\ pc = "done" /\ doc # <<>>
  /\ Len(doc[1].pairs) = 2
  /\ doc[1].pairs[1].Labels # doc[1].pairs[2].Labels
  /\ doc[1].pairs[1].Labels = <<har[origin[1]].Request.Method>>

\* the number of times x occurs in a sequence
Occurrences(seq, x) == Cardinality({i \in DOMAIN seq : seq[i] = x})

SameBag(a, b) ==
  /\ Len(a) = Len(b)
  /\ \A i \in DOMAIN a : Occurrences(a, a[i]) = Occurrences(b, a[i])

\* the parsed URL of every entry
URLs == [j \in DOMAIN har |-> Parse(har[j].Request.URL)]

\* of the handled entries, those whose URL (u: the parsed URLs) parses and has
\* the --host, if one is given
Summarised(u) ==
  SelectSeq([j \in Handled |-> j],
            LAMBDA j : u[j].ok /\ flags.hostFilter \in {<<>>, u[j].Host})

\* the rows of the entries at the indices `at` that have the host h, in input order
RowsOf(u, at, h) ==
  LET mine == SelectSeq(at, LAMBDA j : u[j].Host = h)
  IN  [i \in DOMAIN mine |-> SummaryRow(har[mine[i]].Request, u[mine[i]])]

\* the lines of the section whose "HOST:" line is out[t]: after the column
\* header, up to the next empty line
SectionRows(t) ==
  LET ends == {e \in (t + 1)..Len(out) : out[e] = <<>>}
      last == IF ends = {} THEN Len(out) ELSE (CHOOSE e \in ends : \A f \in ends : e <= f) - 1
  IN  SubSeq(out, t + 2, last)

Sorted(rows) == \A i \in 1..(Len(rows) - 1) : ~StrLess(rows[i + 1], rows[i])

\* the section of host h, whose group holds `rows`: absent while h is pending,
\* then printed once, with the rows of the group in lexicographic order
SectionPrinted(h, rows) ==
  LET at == {t \in DOMAIN out : out[t] = <<"H","O","S","T",":"," ">> \o h}
  IN  IF h \in pending THEN at = {}
      ELSE /\ Cardinality(at) = 1
           /\ \A t \in at :
                /\ Sorted(SectionRows(t))
                /\ SameBag(SectionRows(t), [i \in DOMAIN rows |-> <<" "," "," ">> \o rows[i]])

GroupsAndSections(u, at) ==
  /\ DOMAIN summaryMap = {u[at[i]].Host : i \in DOMAIN at}
  /\ \A h \in DOMAIN summaryMap :
       LET rows == RowsOf(u, at, h)
       IN  /\ SameBag(summaryMap[h], rows)
           /\ pc \in {"print", "done"} => SectionPrinted(h, rows)

\* C9: in the main converter's summary mode every included entry contributes
\* one row to the group of its own host and to no other group, nothing is
\* printed before the pass is over, every host is printed as one section, and
\* the rows of a section are the rows of its group in lexicographic order.
C9_SummaryGroupsSorted ==
  (prog = "main" /\ flags.summarise) =>
    /\ GroupsAndSections(URLs, Summarised(URLs))
    /\ out # <<>> => idx = Len(har) + 1 /\ pc # "loop"
    /\ pc = "done" => pending = {}

\* a section is printed with two rows that came in the other order
C9_Witness ==
  /\ prog = "main" /\ flags.summarise /\ pc = "done"
  /\ \E h \in DOMAIN summaryMap :
       LET rows == RowsOf(URLs, Summarised(URLs), h)
       IN  Len(rows) = 2 /\ StrLess(rows[2], rows[1])

\* C10: in the variant converter with a non-empty --host H, every emitted
\* pair's destination matcher value holds H as a substring.
C10_VariantHostSubstring ==
  (prog = "variant" /\ flags.restrictHost # <<>>) =>
    \A k \in DOMAIN pairs :
      Contains(pairs[k].Request.Destination[1].Value, flags.restrictHost)

====
